---------------------------- MODULE Spec2Model ----------------------------
(***************************************************************************)
(* A model of the Qp crate (BPminres/crates/Qp/src/lib.rs): p-adic values  *)
(* Qp = (numerator: big integer, valuation: i16) and the operation context *)
(* QpOp { prime: i32 } with its arithmetic and its binary codec.           *)
(*                                                                         *)
(* The operations of QpOp are pure functions; each is an operator here,    *)
(* computed the way the code computes it.  The state machine is a caller   *)
(* that holds a context and calls one operation per step on inputs drawn   *)
(* from bounded sets; the state records the call and what it returned.     *)
(*                                                                         *)
(* rug::Integer is unbounded, so numerators are plain integers.  The       *)
(* valuation is an i16: its additions and subtractions overflow.  Rust     *)
(* panics on overflow when the build has overflow checks (debug profile)   *)
(* and wraps when it has none (release profile); overflow_checks is the    *)
(* build's choice, fixed in Init.                                          *)
(***************************************************************************)
EXTENDS Integers, Sequences, FiniteSets

VARIABLES
    prime,            \* QpOp.prime
    overflow_checks,  \* the build profile: TRUE panics on i16 overflow, FALSE wraps
    op,               \* the operation called last
    x,                \* its first Qp argument
    y,                \* its second Qp argument (add, multiply)
    buf,              \* the byte source handed to load
    res               \* what the call returned

vars == <<prime, overflow_checks, op, x, y, buf, res>>

----------------------------------------------------------------------------
(* Bounds of the model *)

\* numerators of the arithmetic inputs: -MaxNum..MaxNum
MaxNum == 4
\* valuations near zero: -MaxVal..MaxVal (the i16 extremes are added to them)
MaxVal == 2
\* the contexts modelled: prime in 2..MaxPrime
MaxPrime == 4
\* the largest exponent power_p is evaluated at
MaxPow == 4
\* unit's argument: -MaxUnit..MaxUnit
MaxUnit == 9
\* base-256 digits in a codec numerator's magnitude
MaxDigits == 2
\* length of an arbitrary byte source handed to load
MaxStream == 5

----------------------------------------------------------------------------
(* Program constants *)

\* valuation: i16
I16_MAX == 32767
I16_MIN == -32768
\* the base of the numerator encoding
BYTE == 256
\* the truncation depth of int_part: prime^40
T64_EXP == 40

----------------------------------------------------------------------------
(* Integer helpers: rug's / and % truncate toward zero *)

Abs(a) == IF a < 0 THEN -a ELSE a

\* a % b of rug::Integer (the remainder has the sign of a); b > 0 here
Rem(a, b) == IF a >= 0 THEN a % b ELSE -((-a) % b)

\* a / b of rug::Integer (truncates toward zero); b > 0 here
Quot(a, b) == IF a >= 0 THEN a \div b ELSE -((-a) \div b)

InI16(v) == I16_MIN <= v /\ v <= I16_MAX

\* an i16 result v computed without overflow checks: two's complement wrap
WrapI16(v) == ((v - I16_MIN) % (2 * (I16_MAX + 1))) + I16_MIN

----------------------------------------------------------------------------
(* Values and results *)

Qp(num, val) == [numerator |-> num, valuation |-> val]

NoBytes == << >>

\* A call's outcome.  status: "ok" (a value was returned), "err" (an
\* io::Result Err), "panic" (the call panicked), "diverge" (the call does not
\* return: see add).  The other fields are the returned data, by kind.
Result(status, q, bytes, consumed, flag, ip) ==
    [status |-> status, q |-> q, bytes |-> bytes, consumed |-> consumed,
     flag |-> flag, ip |-> ip]

NoIp == [t64 |-> 0, off |-> 0]

Ok(q)     == Result("ok", q, NoBytes, 0, FALSE, NoIp)
Panic     == Result("panic", Qp(0, 0), NoBytes, 0, FALSE, NoIp)
Diverge   == Result("diverge", Qp(0, 0), NoBytes, 0, FALSE, NoIp)
Err       == Result("err", Qp(0, 0), NoBytes, 0, FALSE, NoIp)
OkBytes(b) == Result("ok", Qp(0, 0), b, 0, FALSE, NoIp)
OkLoad(q, n) == Result("ok", q, NoBytes, n, FALSE, NoIp)
OkFlag(f) == Result("ok", Qp(0, 0), NoBytes, 0, f, NoIp)
OkIp(k, off) == Result("ok", Qp(0, 0), NoBytes, 0, FALSE, [t64 |-> k, off |-> off])

----------------------------------------------------------------------------
(* QpOp::power_p: 1 multiplied i times by prime *)

RECURSIVE power_p(_, _)
power_p(p, i) == IF i = 0 THEN 1 ELSE power_p(p, i - 1) * p

\* simplify with "if" for "while": one factor p divided out
simplify_loop_once(p, chk, q) ==
    IF Rem(q.numerator, p) = 0
    THEN IF q.valuation + 1 > I16_MAX /\ chk
         THEN Panic
         ELSE Ok(Qp(Quot(q.numerator, p), WrapI16(q.valuation + 1)))
    ELSE Ok(q)

(* QpOp::simplify.  The loop body: numerator /= p; valuation += 1.  The    *)
(* i16 increment overflows at I16_MAX: a panic with overflow checks, a     *)
(* wrap to I16_MIN without.                                                *)
RECURSIVE simplify_loop(_, _, _)
simplify_loop(p, chk, q) ==
    IF Rem(q.numerator, p) = 0
    THEN IF q.valuation + 1 > I16_MAX /\ chk
         THEN Panic
         ELSE simplify_loop(p, chk,
                  Qp(Quot(q.numerator, p), WrapI16(q.valuation + 1)))
    ELSE Ok(q)

\* simplify whose zero branch returns without resetting the valuation
simplify_keep_zero(p, chk, q) ==
    IF q.numerator = 0
    THEN Ok(q)
    ELSE simplify_loop(p, chk, q)

simplify(p, chk, q) ==
    IF q.numerator = 0
    THEN Ok(Qp(0, 0))
    ELSE simplify_loop(p, chk, q)

(* QpOp::zero, is_zero, minus, construct, invertible, inverse *)
zero == Qp(0, 0)

is_zero(q) == q.numerator = 0

minus(q) == Qp(-q.numerator, q.valuation)

construct(num, val) == Qp(num, val)

invertible(q) == ~is_zero(q)

inverse(q) == Panic

(* QpOp::unit: a value of valuation 0, simplified *)
unit(p, chk, n) == simplify(p, chk, Qp(n, 0))

(* The exponent of add: (hi - lo) as u32, an i16 subtraction.  When the    *)
(* difference exceeds I16_MAX the subtraction overflows: a panic with      *)
(* overflow checks; without, it wraps to a negative i16 whose cast to u32  *)
(* is at least 2^32 - 32768, and power_p then multiplies that many times:  *)
(* the call does not return.                                               *)
add_aligned(p, chk, lo, hi) ==
    LET d == hi.valuation - lo.valuation
    IN  IF ~InI16(d)
        THEN IF chk THEN Panic ELSE Diverge
        ELSE Ok(Qp(lo.numerator + hi.numerator * power_p(p, d), lo.valuation))

\* add whose equal-valuation branch sums x.numerator with itself
add_same_operand(p, chk, a, b) ==
    IF a.valuation < b.valuation THEN add_aligned(p, chk, a, b)
    ELSE IF a.valuation > b.valuation THEN add_aligned(p, chk, b, a)
    ELSE simplify(p, chk, Qp(a.numerator + a.numerator, a.valuation))

(* QpOp::add *)
add(p, chk, a, b) ==
    IF a.valuation < b.valuation THEN add_aligned(p, chk, a, b)
    ELSE IF a.valuation > b.valuation THEN add_aligned(p, chk, b, a)
    ELSE simplify(p, chk, Qp(a.numerator + b.numerator, a.valuation))

\* multiply that keeps x's valuation
multiply_keep_valuation(chk, a, b) ==
    Ok(Qp(a.numerator * b.numerator, a.valuation))

(* QpOp::multiply: the valuations are added as i16 *)
multiply(chk, a, b) ==
    LET v == a.valuation + b.valuation
    IN  IF ~InI16(v) /\ chk
        THEN Panic
        ELSE Ok(Qp(a.numerator * b.numerator, WrapI16(v)))

(* QpOp::int_part.  t64 = prime^40 does not fit TLC's 32-bit integers, so    *)
(* the result is kept as the pair (t64, off) standing for                  *)
(* t64 * prime^40 + off.  below_t64 is |a| < prime^40, computed without    *)
(* forming the power; for such an ip, "ip %= t64" leaves ip unchanged.     *)
RECURSIVE pow_exceeds(_, _, _)
pow_exceeds(p, e, a) ==
    IF a < 1 THEN TRUE
    ELSE IF e = 0 THEN FALSE
    ELSE pow_exceeds(p, e - 1, a \div p)

below_t64(p, a) == pow_exceeds(p, T64_EXP, Abs(a))

\* int_part that also refuses the valuation 0
int_part_refuse_zero(p, q) ==
    IF q.valuation <= 0
    THEN Panic
    ELSE LET ip == q.numerator * power_p(p, q.valuation)
         IN  IF ip < 0 THEN OkIp(1, ip) ELSE OkIp(0, ip)

int_part(p, q) ==
    IF q.valuation < 0
    THEN Panic
    ELSE LET ip == q.numerator * power_p(p, q.valuation)
         IN  IF ip < 0 THEN OkIp(1, ip) ELSE OkIp(0, ip)

----------------------------------------------------------------------------
(* The binary codec *)

\* i16::to_le_bytes: the two's complement of v, low byte first
i16_to_le_bytes(v) ==
    LET u == IF v < 0 THEN v + BYTE * BYTE ELSE v
    IN  <<u % BYTE, u \div BYTE>>

\* i16::from_le_bytes
i16_from_le_bytes(b) ==
    LET u == b[1] + BYTE * b[2]
    IN  IF u > I16_MAX THEN u - BYTE * BYTE ELSE u

\* the loop of save_to_vec: the base-256 digits of n, least significant first
RECURSIVE digits(_)
digits(n) == IF n = 0 THEN << >> ELSE <<n % BYTE>> \o digits(n \div BYTE)

(* QpOp::save_to_vec *)
save_to_vec(n) ==
    IF n = 0 THEN <<0>>
    ELSE <<IF n > 0 THEN 1 ELSE 2>> \o digits(Abs(n))

\* the loop of load_from_vec over buf.iter().skip(1): res += vl * b; vl *= 256
RECURSIVE from_digits(_)
from_digits(b) ==
    IF b = << >> THEN 0 ELSE Head(b) + BYTE * from_digits(Tail(b))

\* load_from_vec that never negates
load_from_vec_unsigned(b) ==
    IF b = << >> THEN 0 ELSE from_digits(Tail(b))

(* QpOp::load_from_vec *)
load_from_vec(b) ==
    IF b = << >> THEN 0
    ELSE LET r == from_digits(Tail(b))
         IN  IF b[1] = 2 THEN -r ELSE r

(* QpOp::save into a Vec<u8> (its write_all never fails): the bytes        *)
(* written, or Err when the numerator's length does not fit an i16.        *)
save(q) ==
    LET numerator_bytes == save_to_vec(q.numerator)
    IN  IF Len(numerator_bytes) > I16_MAX
        THEN Err
        ELSE OkBytes(i16_to_le_bytes(q.valuation)
                     \o i16_to_le_bytes(Len(numerator_bytes))
                     \o numerator_bytes)

\* load that reads the numerator with read for read_exact: it takes the bytes
\* that are left
load_short_read(s) ==
    IF Len(s) < 2 THEN Err
    ELSE LET valuation == i16_from_le_bytes(SubSeq(s, 1, 2))
         IN  IF Len(s) < 4 THEN Err
             ELSE LET len == i16_from_le_bytes(SubSeq(s, 3, 4))
                      got == IF Len(s) < 4 + len THEN Len(s) ELSE 4 + len
                  IN  IF len < 0 THEN Err
                      ELSE OkLoad(Qp(load_from_vec(SubSeq(s, 5, got)), valuation),
                                  got)

(* QpOp::load from a source holding the bytes s.  read_exact(n) fails when *)
(* fewer than n bytes remain.  consumed counts the bytes read on success.  *)
load(s) ==
    IF Len(s) < 2 THEN Err
    ELSE LET valuation == i16_from_le_bytes(SubSeq(s, 1, 2))
         IN  IF Len(s) < 4 THEN Err
             ELSE LET len == i16_from_le_bytes(SubSeq(s, 3, 4))
                  IN  IF len < 0 THEN Err
                      ELSE IF Len(s) < 4 + len THEN Err
                      ELSE OkLoad(Qp(load_from_vec(SubSeq(s, 5, 4 + len)),
                                     valuation),
                                  4 + len)

----------------------------------------------------------------------------
(* The inputs of the calls *)

Primes == 2..MaxPrime

Nums == (-MaxNum)..MaxNum

\* valuations near zero and at the ends of i16
Vals == ((-MaxVal)..MaxVal) \cup {I16_MIN, I16_MAX - 1, I16_MAX}

Values == {Qp(n, v) : n \in Nums, v \in Vals}

\* the digits a codec numerator's magnitude is built from (44 + 256 = 300)
CodecDigits == {0, 1, 44, BYTE - 1}

RECURSIVE MagSet(_)
MagSet(k) ==
    IF k = 0 THEN {0}
    ELSE {d + BYTE * m : d \in CodecDigits, m \in MagSet(k - 1)}

CodecNums == MagSet(MaxDigits) \cup {-m : m \in MagSet(MaxDigits)}

CodecVals == Vals \cup {-BYTE, BYTE - 1, BYTE}

CodecValues == {Qp(n, v) : n \in CodecNums, v \in CodecVals}

\* the bytes of an arbitrary source
ByteAlphabet == {0, 1, 2, BYTE - 1}

RECURSIVE SeqsUpTo(_, _)
SeqsUpTo(S, k) ==
    IF k = 0 THEN {<< >>}
    ELSE LET shorter == SeqsUpTo(S, k - 1)
         IN  shorter \cup {<<b>> \o t : b \in S, t \in {u \in shorter : Len(u) = k - 1}}

Streams == SeqsUpTo(ByteAlphabet, MaxStream)

----------------------------------------------------------------------------
(* The caller *)

Init ==
    /\ prime \in Primes
    /\ overflow_checks \in BOOLEAN
    /\ op = "new"
    /\ x = zero
    /\ y = zero
    /\ buf = NoBytes
    /\ res = Ok(zero)

\* What a call leaves in the state.
Return(name, a, b, s, r) ==
    /\ op' = name
    /\ x' = a
    /\ y' = b
    /\ buf' = s
    /\ res' = r
    /\ UNCHANGED <<prime, overflow_checks>>

\* The caller is ready for a call.
Idle == op = "new"

\* The caller drops the result and is ready for its next call.
Drop ==
    /\ op # "new"
    /\ Return("new", zero, zero, NoBytes, Ok(zero))

CallConstruct ==
    /\ Idle
    /\ \E n \in Nums, v \in Vals :
           Return("construct", Qp(n, v), zero, NoBytes, Ok(construct(n, v)))

CallUnit ==
    /\ Idle
    /\ \E n \in (-MaxUnit)..MaxUnit :
           Return("unit", Qp(n, 0), zero, NoBytes, unit(prime, overflow_checks, n))

CallSimplify ==
    /\ Idle
    /\ \E a \in Values :
           Return("simplify", a, zero, NoBytes, simplify(prime, overflow_checks, a))

CallMinus ==
    /\ Idle
    /\ \E a \in Values : Return("minus", a, zero, NoBytes, Ok(minus(a)))

CallIsZero ==
    /\ Idle
    /\ \E a \in Values : Return("is_zero", a, zero, NoBytes, OkFlag(is_zero(a)))

CallInvertible ==
    /\ Idle
    /\ \E a \in Values : Return("invertible", a, zero, NoBytes, OkFlag(invertible(a)))

CallInverse ==
    /\ Idle
    /\ \E a \in Values : Return("inverse", a, zero, NoBytes, inverse(a))

\* power_p is evaluated for exponents up to MaxPow; a difference past
\* I16_MAX never reaches power_p with a small exponent (see add_aligned)
CallAdd ==
    /\ Idle
    /\ \E a \in Values, b \in Values :
           /\ LET d == Abs(a.valuation - b.valuation)
              IN  d <= MaxPow \/ d > I16_MAX
           /\ Return("add", a, b, NoBytes, add(prime, overflow_checks, a, b))

CallMultiply ==
    /\ Idle
    /\ \E a \in Values, b \in Values :
           Return("multiply", a, b, NoBytes, multiply(overflow_checks, a, b))

CallIntPart ==
    /\ Idle
    /\ \E a \in Values :
           /\ a.valuation <= MaxPow
           /\ a.valuation >= 0 => below_t64(prime, a.numerator * power_p(prime, a.valuation))
           /\ Return("int_part", a, zero, NoBytes, int_part(prime, a))

CallSave ==
    /\ Idle
    /\ \E a \in CodecValues : Return("save", a, zero, NoBytes, save(a))

\* load on the bytes the last save wrote
CallLoadSaved ==
    /\ op = "save"
    /\ res.status = "ok"
    /\ Return("load_saved", x, zero, res.bytes, load(res.bytes))

\* load on the first k bytes of what the last save wrote
CallLoadTruncated ==
    /\ op = "save"
    /\ res.status = "ok"
    /\ \E k \in 0..(Len(res.bytes) - 1) :
           Return("load_truncated", x, zero, SubSeq(res.bytes, 1, k),
                load(SubSeq(res.bytes, 1, k)))

\* load on an arbitrary source
CallLoad ==
    /\ Idle
    /\ \E s \in Streams : Return("load", zero, zero, s, load(s))

Next ==
    \/ CallConstruct
    \/ CallUnit
    \/ CallSimplify
    \/ CallMinus
    \/ CallIsZero
    \/ CallInvertible
    \/ CallInverse
    \/ CallAdd
    \/ CallMultiply
    \/ CallIntPart
    \/ CallSave
    \/ CallLoadSaved
    \/ CallLoadTruncated
    \/ CallLoad
    \/ Drop

Spec == Init /\ [][Next]_vars

----------------------------------------------------------------------------
(* Vocabulary of the properties *)

\* the canonical form of section 3: (0, 0), or a numerator p does not divide
CanonicalNonzero(p, q) == q.numerator # 0 /\ Rem(q.numerator, p) # 0

Canonical(p, q) == q = zero \/ CanonicalNonzero(p, q)

IsPrime(p) == p >= 2 /\ \A d \in 2..(p - 1) : p % d # 0

\* the number of factors p in n # 0
RECURSIVE Ord(_, _)
Ord(p, n) == IF n % p = 0 THEN 1 + Ord(p, n \div p) ELSE 0

\* n * p^e, the number a numerator n stands for e valuations up
Scaled(n, p, e) == IF n = 0 THEN 0 ELSE n * power_p(p, e)

\* n1 * p^e1 and n2 * p^e2 are the same number (e1, e2 of either sign):
\* both zero, or the same numerator once the factors p are divided out and
\* the same exponent once they are counted in
SameNumber(p, n1, e1, n2, e2) ==
    IF n1 = 0 \/ n2 = 0
    THEN n1 = 0 /\ n2 = 0
    ELSE LET k1 == Ord(p, Abs(n1))
             k2 == Ord(p, Abs(n2))
         IN  /\ e1 + k1 = e2 + k2
             /\ Quot(n1, power_p(p, k1)) = Quot(n2, power_p(p, k2))

\* the signed 16-bit length a source of at least 4 bytes declares
DeclaredLen(s) ==
    LET u == s[3] + 256 * s[4]
    IN  IF u >= 32768 THEN u - 65536 ELSE u

IsLoad == op \in {"load", "load_saved", "load_truncated"}

----------------------------------------------------------------------------
(* C1: round trip.  load on exactly the bytes save wrote for v returns a   *)
(* value with v's numerator and v's valuation, for negative, zero and      *)
(* positive numerators of one or several base-256 digits and any i16       *)
(* valuation.                                                              *)
C1_RoundTrip ==
    op = "load_saved" =>
        /\ res.status = "ok"
        /\ res.q.numerator = x.numerator
        /\ res.q.valuation = x.valuation

\* -300 at the lowest valuation went through save and load
C1_Witness ==
    /\ op = "load_saved"
    /\ x = Qp(-300, I16_MIN)
    /\ buf = <<0, 128, 3, 0, 2, 44, 1>>
    /\ res.q = x

(* C2: additive identity, as claimed: for canonical x, add(x, zero())      *)
(* returns x.  The code returns (x.numerator * p^v, 0) for a canonical x   *)
(* of valuation v > 0.                                                     *)
C2_AddZeroIsIdentity ==
    (op = "add" /\ y = zero /\ Canonical(prime, x) /\ res.status = "ok")
        => res.q = x

(* C3: additive inverse.  For every x, canonical or not, add(x, minus(x))  *)
(* returns a value and is_zero holds of it.                                *)
C3_AddMinusIsZero ==
    (op = "add" /\ y = minus(x)) =>
        /\ res.status = "ok"
        /\ is_zero(res.q)

\* a nonzero, non-canonical x at the highest valuation was added to its minus
C3_Witness ==
    /\ op = "add"
    /\ x.numerator = prime
    /\ x.valuation = I16_MAX
    /\ y = minus(x)
    /\ res.q = zero

(* C4, as claimed: for a prime p and canonical nonzero x and y,            *)
(* multiply(x, y) has a nonzero numerator p does not divide and the        *)
(* valuation x.valuation + y.valuation.                                    *)
C4_MultiplyCanonicalAnyValuation ==
    (/\ op = "multiply"
     /\ IsPrime(prime)
     /\ CanonicalNonzero(prime, x)
     /\ CanonicalNonzero(prime, y)) =>
        /\ res.status = "ok"
        /\ CanonicalNonzero(prime, res.q)
        /\ res.q.valuation = x.valuation + y.valuation

(* C4, amended: the same, for x and y whose valuations sum to an i16.      *)
C4_MultiplyCanonical ==
    (/\ op = "multiply"
     /\ IsPrime(prime)
     /\ CanonicalNonzero(prime, x)
     /\ CanonicalNonzero(prime, y)
     /\ InI16(x.valuation + y.valuation)) =>
        /\ res.status = "ok"
        /\ CanonicalNonzero(prime, res.q)
        /\ res.q.valuation = x.valuation + y.valuation

\* (2, 1) times (4, -2) under the prime 3
C4_Witness ==
    /\ op = "multiply"
    /\ prime = 3
    /\ x = Qp(2, 1)
    /\ y = Qp(4, -2)
    /\ res.q = Qp(8, -1)

(* C5: idempotence.  Whatever value simplify returns, simplify returns it  *)
(* unchanged.                                                              *)
C5_SimplifyIdempotent ==
    (op = "simplify" /\ res.status = "ok") =>
        simplify(prime, overflow_checks, res.q) = Ok(res.q)

\* simplify divided a non-canonical numerator twice
C5_Witness ==
    /\ op = "simplify"
    /\ res.status = "ok"
    /\ x.numerator = 4
    /\ prime = 2
    /\ res.q = Qp(1, x.valuation + 2)

(* C6, as claimed: simplify (and unit, which ends in it) maps a zero       *)
(* numerator to (0, 0) whatever the valuation, and a nonzero numerator to  *)
(* a numerator p does not divide, k factors p divided out and the          *)
(* valuation raised by k.                                                  *)
C6_SimplifyCanonicalAnyValuation ==
    (op \in {"simplify", "unit"}) =>
        /\ res.status = "ok"
        /\ x.numerator = 0 => res.q = zero
        /\ x.numerator # 0 =>
              /\ CanonicalNonzero(prime, res.q)
              /\ \E k \in 0..Abs(x.numerator) :
                    /\ k = Ord(prime, Abs(x.numerator))
                    /\ res.q.numerator * power_p(prime, k) = x.numerator
                    /\ res.q.valuation = x.valuation + k

(* C6, amended: the same, for inputs whose raised valuation                *)
(* x.valuation + k is at most 32767.                                       *)
C6_SimplifyCanonical ==
    (/\ op \in {"simplify", "unit"}
     /\ x.numerator # 0 => x.valuation + Ord(prime, Abs(x.numerator)) <= I16_MAX) =>
        /\ res.status = "ok"
        /\ x.numerator = 0 => res.q = zero
        /\ x.numerator # 0 =>
              /\ CanonicalNonzero(prime, res.q)
              /\ \E k \in 0..Abs(x.numerator) :
                    /\ k = Ord(prime, Abs(x.numerator))
                    /\ res.q.numerator * power_p(prime, k) = x.numerator
                    /\ res.q.valuation = x.valuation + k

\* unit(9) under the prime 3: two factors divided out
C6_Witness ==
    /\ op = "unit"
    /\ prime = 3
    /\ x = Qp(9, 0)
    /\ res.q = Qp(1, 2)

(* C7, as claimed: for all x and y, add(x, y) returns z with               *)
(* z.numerator * p^(z.valuation - m) =                                     *)
(*   x.numerator * p^(x.valuation - m) + y.numerator * p^(y.valuation - m) *)
(* for m the smaller valuation (an equation between rationals: z's          *)
(* valuation is 0 when the sum is zero), and z keeps m when the valuations *)
(* differ.                                                                 *)
C7_AddIsSum ==
    op = "add" =>
        LET m == IF x.valuation < y.valuation THEN x.valuation ELSE y.valuation
        IN  /\ res.status = "ok"
            /\ x.valuation # y.valuation => res.q.valuation = m
            /\ SameNumber(prime, res.q.numerator, res.q.valuation,
                          Scaled(x.numerator, prime, x.valuation - m)
                          + Scaled(y.numerator, prime, y.valuation - m), m)

(* C8: int_part panics exactly on a negative valuation, whatever the       *)
(* numerator, and a panic carries no number.                               *)
C8_IntPartPanicsIffNegative ==
    op = "int_part" =>
        /\ x.valuation < 0 => res = Panic
        /\ x.valuation >= 0 => res.status = "ok"

\* int_part of the zero numerator at valuation -1 panicked
C8_Witness ==
    /\ op = "int_part"
    /\ x = Qp(0, -1)
    /\ res.status = "panic"

(* C9, as claimed: for canonical x and y of different valuations, the      *)
(* value add(x, y) returns is canonical.                                   *)
C9_AddKeepsCanonical ==
    (/\ op = "add"
     /\ Canonical(prime, x)
     /\ Canonical(prime, y)
     /\ x.valuation # y.valuation
     /\ res.status = "ok") =>
        Canonical(prime, res.q)

(* C10: load never panics; it fails when the source ends before the 2      *)
(* valuation bytes, the 2 length bytes and the declared number of          *)
(* numerator bytes, or when the declared length is negative; it returns a  *)
(* value only after reading exactly 4 + length bytes.                      *)
C10_LoadReportsFormatErrors ==
    IsLoad =>
        /\ res.status \in {"ok", "err"}
        /\ Len(buf) < 4 => res.status = "err"
        /\ Len(buf) >= 4 =>
              /\ DeclaredLen(buf) < 0 => res.status = "err"
              /\ Len(buf) < 4 + DeclaredLen(buf) => res.status = "err"
              /\ res.status = "ok" =>
                    /\ res.consumed = 4 + DeclaredLen(buf)
                    /\ res.consumed <= Len(buf)

\* the source ended inside the declared numerator bytes
C10_Witness ==
    /\ op = "load_truncated"
    /\ x = Qp(-300, 1)
    /\ buf = <<1, 0, 3, 0, 2, 44>>
    /\ res.status = "err"

----------------------------------------------------------------------------
(* What the code does guarantee where C2, C7 and C9 fail *)

\* add(x, zero()) returns x for canonical x of valuation <= 0
AddZeroIsIdentityAtOrBelowZero ==
    (/\ op = "add"
     /\ y = zero
     /\ Canonical(prime, x)
     /\ x.valuation <= 0
     /\ res.status = "ok") => res.q = x

\* add returns the sum when no i16 operation overflows: the valuations
\* differ by at most 32767, or are equal and the sum's valuation fits
AddIsSumWithoutOverflow ==
    (/\ op = "add"
     /\ Abs(x.valuation - y.valuation) <= I16_MAX
     /\ (x.valuation = y.valuation /\ x.numerator + y.numerator # 0) =>
            x.valuation + Ord(prime, Abs(x.numerator + y.numerator)) <= I16_MAX)
        => C7_AddIsSum

\* the scenario of section 8 under the prime 3
AddNinePlusFour ==
    /\ (op = "unit" /\ prime = 3 /\ x.numerator = 9) => res = Ok(Qp(1, 2))
    /\ (op = "unit" /\ prime = 3 /\ x.numerator = 4) => res = Ok(Qp(4, 0))
    /\ (op = "add" /\ prime = 3 /\ x = Qp(1, 2) /\ y = Qp(4, 0)) => res = Ok(Qp(13, 0))

\* add keeps canonical form when both operands are canonical and nonzero
AddKeepsCanonicalNonzero ==
    (/\ op = "add"
     /\ CanonicalNonzero(prime, x)
     /\ CanonicalNonzero(prime, y)
     /\ x.valuation # y.valuation
     /\ res.status = "ok") => CanonicalNonzero(prime, res.q)

=============================================================================
